---- MODULE Spec2Model ----
(***************************************************************************)
(* Model of the three-parallel corpus site: the parser of three-language   *)
(* chapter files (app.parse_three_parallel_file), the corpus builder       *)
(* (app.load_books_from_raw), the search engine (app.search_in_books), the *)
(* statistics (app.get_statistics), the chapter page (app.chapter_page),   *)
(* the static builder (build_static) and the importer's writer             *)
(* (batch_import.create_three_parallel_content).                           *)
(*                                                                         *)
(* A Python str is a sequence of one-character strings.  The characters    *)
(* are ASCII letters, digits and punctuation; a CJK character is written   *)
(* by its code point ("U+53F2") and is a single character with no case.    *)
(***************************************************************************)
EXTENDS Integers, Sequences, FiniteSets, TLC

VARIABLES pc, file, chapter, tree, BOOKS, call, results, stats, page, static,
          texts, req

vars == <<pc, file, chapter, tree, BOOKS, call, results, stats, page, static,
          texts, req>>


\* ------------------------------------------------------------------------
\* Bounds of the model
\* ------------------------------------------------------------------------

\* longest file content enumerated for the parser
MaxLen == 7

\* ------------------------------------------------------------------------
\* Python str primitives
\* ------------------------------------------------------------------------

\* min(S), max(S)
Min(S) == CHOOSE x \in S : \A y \in S : x <= y
Max(S) == CHOOSE x \in S : \A y \in S : x >= y

NL == "\n"
SP == " "

\* the separator of paragraph groups, '\n\n'
NLNL == <<NL, NL>>

\* the value of a variable not yet assigned
None == "None"

\* Python None where a str may stand: a value that is no str
PyNone == <<"None">>

\* what stands for a path at which open() raises FileNotFoundError: a value
\* that is no file content
FileNotFound == <<"FileNotFoundError">>

\* str.isspace() of one character, as str.strip() with no argument uses it
IsSpace(c) == c \in {SP, NL}

\* str.lstrip(): s from its first character that is no whitespace
LStrip(s) == SubSeq(s, Min({i \in 1..Len(s) : ~IsSpace(s[i])} \cup {Len(s) + 1}), Len(s))

\* str.rstrip(): s up to its last character that is no whitespace
RStrip(s) == SubSeq(s, 1, Max({i \in 1..Len(s) : ~IsSpace(s[i])} \cup {0}))

\* str.strip()
Strip(s) == RStrip(LStrip(s))

\* s[n:]
Drop(s, n) == SubSeq(s, n + 1, Len(s))

RECURSIVE SplitFrom(_, _, _)
\* the pieces of s from position from on: up to the next occurrence of sep,
\* then on behind it
SplitFrom(s, sep, from) ==
    LET hits == {i \in from..(Len(s) - Len(sep) + 1) :
                    SubSeq(s, i, i + Len(sep) - 1) = sep}
    IN IF hits = {} THEN <<SubSeq(s, from, Len(s))>>
       ELSE <<SubSeq(s, from, Min(hits) - 1)>> \o SplitFrom(s, sep, Min(hits) + Len(sep))

\* s.split(sep): left to right, occurrences of sep that do not overlap
Split(s, sep) == SplitFrom(s, sep, 1)

RECURSIVE Join(_, _)
\* sep.join(parts)
Join(sep, parts) ==
    IF parts = <<>> THEN <<>>
    ELSE IF Len(parts) = 1 THEN parts[1]
    ELSE parts[1] \o sep \o Join(sep, Tail(parts))

\* ------------------------------------------------------------------------
\* app.parse_three_parallel_file
\* ------------------------------------------------------------------------

RECURSIVE StripNonEmpty(_)
StripNonEmpty(ls) ==
    IF ls = <<>> THEN <<>>
    ELSE IF Strip(Head(ls)) # <<>>
         THEN <<Strip(Head(ls))>> \o StripNonEmpty(Tail(ls))
         ELSE StripNonEmpty(Tail(ls))

\* [line.strip() for line in group.split('\n') if line.strip()]
GroupLines(group) == StripNonEmpty(Split(group, <<NL>>))

\* {'wenyan': '', 'zh': '', 'en': '', 'paragraphs': []}
EmptyChapterNoParagraphs == [wenyan |-> <<>>, zh |-> <<>>, en |-> <<>>]

EmptyChapter == [wenyan |-> <<>>, zh |-> <<>>, en |-> <<>>, paragraphs |-> <<>>]

\* the four lists the loop appends to
EmptyParts == [wenyan_parts |-> <<>>, zh_parts |-> <<>>, en_parts |-> <<>>,
               paragraphs |-> <<>>]

AppendGroup(acc, wenyan, zh, en) ==
    [wenyan_parts |-> Append(acc.wenyan_parts, wenyan),
     zh_parts     |-> Append(acc.zh_parts, zh),
     en_parts     |-> Append(acc.en_parts, en),
     paragraphs   |-> Append(acc.paragraphs, [wenyan |-> wenyan, zh |-> zh, en |-> en])]

\* a two-line group is read as original and translation
ParseGroupSwapped(acc, group) ==
    LET lines == GroupLines(group) IN
    IF Len(lines) >= 3 THEN AppendGroup(acc, lines[1], lines[2], lines[3])
    ELSE IF Len(lines) = 2 THEN AppendGroup(acc, lines[1], <<>>, lines[2])
    ELSE IF Len(lines) = 1 THEN AppendGroup(acc, lines[1], <<>>, <<>>)
    ELSE acc

\* a group with no line still yields a paragraph
ParseGroupKeepBlank(acc, group) ==
    LET lines == GroupLines(group) IN
    IF Len(lines) >= 3 THEN AppendGroup(acc, lines[1], lines[2], lines[3])
    ELSE IF Len(lines) = 2 THEN AppendGroup(acc, lines[1], lines[2], <<>>)
    ELSE IF Len(lines) = 1 THEN AppendGroup(acc, lines[1], <<>>, <<>>)
    ELSE AppendGroup(acc, <<>>, <<>>, <<>>)

\* a one-line group appends nothing to en_parts
ParseGroupDropEmpty(acc, group) ==
    LET lines == GroupLines(group) IN
    IF Len(lines) >= 3 THEN AppendGroup(acc, lines[1], lines[2], lines[3])
    ELSE IF Len(lines) = 2 THEN AppendGroup(acc, lines[1], lines[2], <<>>)
    ELSE IF Len(lines) = 1
         THEN [AppendGroup(acc, lines[1], <<>>, <<>>) EXCEPT !.en_parts = acc.en_parts]
    ELSE acc

\* the body of "for group in paragraph_groups"
ParseGroup(acc, group) ==
    LET lines == GroupLines(group) IN
    IF Len(lines) >= 3 THEN AppendGroup(acc, lines[1], lines[2], lines[3])
    ELSE IF Len(lines) = 2 THEN AppendGroup(acc, lines[1], lines[2], <<>>)
    ELSE IF Len(lines) = 1 THEN AppendGroup(acc, lines[1], <<>>, <<>>)
    ELSE acc

RECURSIVE ParseGroups(_, _)
ParseGroups(acc, groups) ==
    IF groups = <<>> THEN acc
    ELSE ParseGroups(ParseGroup(acc, Head(groups)), Tail(groups))

\* f is what open(file_path).read() gives, or FileNotFound
parse_three_parallel_file(f) ==
    IF f = FileNotFound THEN EmptyChapter
    ELSE LET content == Strip(f) IN
         IF content = <<>> THEN EmptyChapter
         ELSE LET acc == ParseGroups(EmptyParts, Split(content, NLNL)) IN
              [wenyan     |-> Join(NLNL, acc.wenyan_parts),
               zh         |-> Join(NLNL, acc.zh_parts),
               en         |-> Join(NLNL, acc.en_parts),
               paragraphs |-> acc.paragraphs]

\* ------------------------------------------------------------------------
\* The file tree under RAW_DIR and the os calls made on it
\* ------------------------------------------------------------------------

\* A tree is a function from paths to entries.  A path is the sequence of
\* names below RAW_DIR (<<>> is RAW_DIR itself); an entry is a directory
\* [kind |-> "dir"], a file [kind |-> "file", data |-> its text] or a link
\* to nothing [kind |-> "link"].

\* os.path.join(path, name)
PathJoin(path, name) == Append(path, name)

\* os.path.isdir(path)
IsDir(t, path) == path \in DOMAIN t /\ t[path].kind = "dir"

\* os.listdir(path), an unordered set of names
ListDir(t, path) ==
    {q[Len(q)] : q \in {r \in DOMAIN t : Len(r) = Len(path) + 1
                                         /\ SubSeq(r, 1, Len(path)) = path}}

\* the error open(path) raises: none for a file, IsADirectoryError for a
\* directory, FileNotFoundError for a link to nothing or a missing path
OpenError(t, path) ==
    IF path \notin DOMAIN t THEN "FileNotFoundError"
    ELSE IF t[path].kind = "dir" THEN "IsADirectoryError"
    ELSE IF t[path].kind = "link" THEN "FileNotFoundError"
    ELSE ""

\* open(path).read() inside "try ... except FileNotFoundError": the text of a
\* file, FileNotFound for a link to nothing (a directory raises past the
\* except clause: see OpenError)
ReadFile(t, path) ==
    IF path \in DOMAIN t /\ t[path].kind = "file" THEN t[path].data
    ELSE FileNotFound

\* the characters of names and texts in code point order
CodeOrder ==
    <<NL, SP, ".", "0", "1", "2", "3", "4", "5", "6", "7", "8", "9", "<", ">",
      "A", "B", "C", "D", "E", "F", "G", "H", "I", "J", "K", "L", "M", "N",
      "O", "P", "Q", "R", "S", "T", "U", "V", "W", "X", "Y", "Z", "_",
      "a", "b", "c", "d", "e", "f", "g", "h", "i", "j", "k", "l", "m", "n",
      "o", "p", "q", "r", "s", "t", "u", "v", "w", "x", "y", "z">>

\* the rank of a character in code point order
Ord(c) == CHOOSE i \in 1..Len(CodeOrder) : CodeOrder[i] = c

RECURSIVE StrLess(_, _)
\* a < b on str
StrLess(a, b) ==
    IF b = <<>> THEN FALSE
    ELSE IF a = <<>> THEN TRUE
    ELSE IF Ord(Head(a)) < Ord(Head(b)) THEN TRUE
    ELSE IF Ord(Head(a)) > Ord(Head(b)) THEN FALSE
    ELSE StrLess(Tail(a), Tail(b))

RECURSIVE SortedDescending(_)
\* the names from the greatest to the least
SortedDescending(names) ==
    IF names = {} THEN <<>>
    ELSE LET m == CHOOSE x \in names : \A y \in names \ {x} : StrLess(y, x)
         IN <<m>> \o SortedDescending(names \ {m})

RECURSIVE Sorted(_)
\* sorted(names)
Sorted(names) ==
    IF names = {} THEN <<>>
    ELSE LET m == CHOOSE x \in names : \A y \in names \ {x} : StrLess(x, y)
         IN <<m>> \o Sorted(names \ {m})

\* s.endswith(p)
EndsWith(s, p) == Len(p) <= Len(s) /\ SubSeq(s, Len(s) - Len(p) + 1, Len(s)) = p

\* c in s
HasChar(s, c) == \E i \in 1..Len(s) : s[i] = c

\* s.split(c, 1)[1], for s that holds c
AfterFirst(s, c) == Drop(s, Min({i \in 1..Len(s) : s[i] = c}))

DotTxt == <<".", "t", "x", "t">>

RECURSIVE Remove(_, _)
\* s.replace(p, ''): s without the occurrences of p, found from the left
Remove(s, p) ==
    IF Len(s) < Len(p) THEN s
    ELSE IF SubSeq(s, 1, Len(p)) = p THEN Remove(Drop(s, Len(p)), p)
    ELSE <<Head(s)>> \o Remove(Tail(s), p)

\* ------------------------------------------------------------------------
\* app.load_books_from_raw
\* ------------------------------------------------------------------------

\* the directory names of the table, as str values
benji == <<"b", "e", "n", "j", "i">>
biao == <<"b", "i", "a", "o">>
diji == <<"d", "i", "j", "i">>
hanshu == <<"h", "a", "n", "s", "h", "u">>
houhanshu == <<"h", "o", "u", "h", "a", "n", "s", "h", "u">>
liezhuan == <<"l", "i", "e", "z", "h", "u", "a", "n">>
sanguozhi == <<"s", "a", "n", "g", "u", "o", "z", "h", "i">>
shiji == <<"s", "h", "i", "j", "i">>
shijia == <<"s", "h", "i", "j", "i", "a">>
shu == <<"s", "h", "u">>
wei == <<"w", "e", "i">>
wu == <<"w", "u">>
zhi == <<"z", "h", "i">>

\* book_configs
book_configs ==
    (shiji :> [name |-> <<"U+53F2", "U+8BB0">>,
        categories |->
           (benji :> <<"U+672C", "U+7EAA">>)
        @@ (shijia :> <<"U+4E16", "U+5BB6">>)
        @@ (liezhuan :> <<"U+5217", "U+4F20">>)
        @@ (shu :> <<"U+4E66">>)
        @@ (biao :> <<"U+8868">>)])
    @@
    (hanshu :> [name |-> <<"U+6C49", "U+4E66">>,
        categories |->
           (benji :> <<"U+672C", "U+7EAA">>)
        @@ (biao :> <<"U+8868">>)
        @@ (zhi :> <<"U+5FD7">>)
        @@ (liezhuan :> <<"U+5217", "U+4F20">>)])
    @@
    (houhanshu :> [name |-> <<"U+540E", "U+6C49", "U+4E66">>,
        categories |->
           (liezhuan :> <<"U+5217", "U+4F20">>)
        @@ (diji :> <<"U+5E1D", "U+7EAA">>)
        @@ (shu :> <<"U+4E66">>)])
    @@
    (sanguozhi :> [name |-> <<"U+4E09", "U+56FD", "U+5FD7">>,
        categories |->
           (wei :> <<"U+9B4F", "U+4E66">>)
        @@ (shu :> <<"U+8700", "U+4E66">>)
        @@ (wu :> <<"U+5434", "U+4E66">>)])

\* book_configs.get(book_id, {"name": book_id, "categories": {}})
BookConfig(book_id) ==
    IF book_id \in DOMAIN book_configs THEN book_configs[book_id]
    ELSE [name |-> book_id, categories |-> <<>>]

\* the label of cat_dir in the table of whichever book has one
CategoryTitleAnyBook(book_config, cat_dir) ==
    IF \E b \in DOMAIN book_configs : cat_dir \in DOMAIN book_configs[b].categories
    THEN book_configs[CHOOSE b \in DOMAIN book_configs :
                          cat_dir \in DOMAIN book_configs[b].categories].categories[cat_dir]
    ELSE cat_dir

\* book_config["categories"].get(cat_dir, cat_dir)
CategoryTitle(book_config, cat_dir) ==
    IF cat_dir \in DOMAIN book_config.categories
    THEN book_config.categories[cat_dir]
    ELSE cat_dir

\* the title of a chapter file: the name without every '.txt' in it, and
\* without what stands before its first underscore
ChapterTitle(filename) ==
    LET chapter_title == Remove(filename, DotTxt) IN
    IF HasChar(chapter_title, "_") THEN AfterFirst(chapter_title, "_")
    ELSE chapter_title

\* the chapter appended for the i-th (from 0) sorted filename
LoadChapter(t, cat_path, i, filename) ==
    LET content == parse_three_parallel_file(ReadFile(t, PathJoin(cat_path, filename))) IN
    [id         |-> i + 1,
     title      |-> ChapterTitle(filename),
     wenyan     |-> content.wenyan,
     zh         |-> content.zh,
     en         |-> content.en,
     paragraphs |-> content.paragraphs]

\* the chapters of one category directory
LoadChapters(t, cat_path) ==
    LET chapter_files == {f \in ListDir(t, cat_path) : EndsWith(f, DotTxt)}
        files == Sorted(chapter_files)
    IN [k \in 1..Len(files) |-> LoadChapter(t, cat_path, k - 1, files[k])]

RECURSIVE LoadCategoriesKeepEmpty(_, _, _, _)
\* a category is appended whether it has chapters or not
LoadCategoriesKeepEmpty(t, book_path, book_config, cat_dirs) ==
    IF cat_dirs = <<>> THEN <<>>
    ELSE LET cat_dir  == Head(cat_dirs)
             cat_path == PathJoin(book_path, cat_dir)
             rest     == LoadCategoriesKeepEmpty(t, book_path, book_config, Tail(cat_dirs))
         IN IF ~IsDir(t, cat_path) THEN rest
            ELSE <<[id       |-> cat_dir,
                    title    |-> CategoryTitle(book_config, cat_dir),
                    chapters |-> LoadChapters(t, cat_path)]>> \o rest

RECURSIVE LoadCategories(_, _, _, _)
\* the loop over sorted(os.listdir(book_path))
LoadCategories(t, book_path, book_config, cat_dirs) ==
    IF cat_dirs = <<>> THEN <<>>
    ELSE LET cat_dir  == Head(cat_dirs)
             cat_path == PathJoin(book_path, cat_dir)
             rest     == LoadCategories(t, book_path, book_config, Tail(cat_dirs))
         IN IF ~IsDir(t, cat_path) THEN rest
            ELSE LET chapters == LoadChapters(t, cat_path) IN
                 IF chapters # <<>>
                 THEN <<[id       |-> cat_dir,
                         title    |-> CategoryTitle(book_config, cat_dir),
                         chapters |-> chapters]>> \o rest
                 ELSE rest

RECURSIVE LoadBooks(_, _)
\* the loop over sorted(os.listdir(RAW_DIR))
LoadBooks(t, book_ids) ==
    IF book_ids = <<>> THEN <<>>
    ELSE LET book_id     == Head(book_ids)
             book_path   == <<book_id>>
             book_config == BookConfig(book_id)
             rest        == LoadBooks(t, Tail(book_ids))
         IN IF ~IsDir(t, book_path) THEN rest
            ELSE LET categories ==
                         LoadCategories(t, book_path, book_config,
                                        Sorted(ListDir(t, book_path)))
                 IN IF categories # <<>>
                    THEN <<[id         |-> book_id,
                            title      |-> book_config.name,
                            categories |-> categories]>> \o rest
                    ELSE rest

load_books_from_raw(t) ==
    IF ~IsDir(t, <<>>) THEN <<>>
    ELSE LoadBooks(t, Sorted(ListDir(t, <<>>)))

\* the chapter files the build opens: the '.txt' entries of the directories
\* of the directories of RAW_DIR
ChapterFilePaths(t) ==
    {p \in DOMAIN t :
        /\ Len(p) = 3
        /\ EndsWith(p[3], DotTxt)
        /\ IsDir(t, <<>>) /\ IsDir(t, SubSeq(p, 1, 1)) /\ IsDir(t, SubSeq(p, 1, 2))}

\* load_books_from_raw raises: a chapter file that is a directory makes
\* open() raise IsADirectoryError, which nothing catches
LoadRaises(t) == \E p \in ChapterFilePaths(t) : OpenError(t, p) = "IsADirectoryError"

\* ------------------------------------------------------------------------
\* app.highlight_text and app.search_in_books
\* ------------------------------------------------------------------------

UpperCase == <<"A", "B", "C", "D", "E", "F", "G", "H", "I", "J", "K", "L", "M", "N",
              "O", "P", "Q", "R", "S", "T", "U", "V", "W", "X", "Y", "Z">>
LowerCase == <<"a", "b", "c", "d", "e", "f", "g", "h", "i", "j", "k", "l", "m", "n",
              "o", "p", "q", "r", "s", "t", "u", "v", "w", "x", "y", "z">>

\* c.lower() of one character
LowerChar(c) ==
    IF \E i \in 1..Len(UpperCase) : UpperCase[i] = c
    THEN LowerCase[CHOOSE i \in 1..Len(UpperCase) : UpperCase[i] = c]
    ELSE c

\* s.lower()
Lower(s) == [i \in 1..Len(s) |-> LowerChar(s[i])]

\* s.find(sub): the 0-based index of the first occurrence, -1 when none
Find(s, sub) ==
    LET hits == {i \in 0..(Len(s) - Len(sub)) : SubSeq(s, i + 1, i + Len(sub)) = sub}
    IN IF hits = {} THEN -1 ELSE Min(hits)

\* sub in s
Contains(s, sub) == Find(s, sub) # -1

\* s[a:b] for 0 <= a and 0 <= b <= len(s)
Slice(s, a, b) == SubSeq(s, a + 1, b)

\* bool(v) of a str or None
Truthy(v) == v # PyNone /\ v # <<>>

\* the characters taken before and after the occurrence for the context
ContextChars == 50

MarkOpen  == <<"<", "m", "a", "r", "k", ">">>
MarkClose == <<"<", "/", "m", "a", "r", "k", ">">>

RECURSIVE ReSubMark(_, _)
\* re.sub('(' + re.escape(query) + ')', r'<mark>\1</mark>', text, flags=re.IGNORECASE)
\* for a non-empty query: the matches are taken left to right and do not overlap
ReSubMark(text, query) ==
    LET hits == {i \in 1..(Len(text) - Len(query) + 1) :
                    Lower(SubSeq(text, i, i + Len(query) - 1)) = Lower(query)}
    IN IF hits = {} THEN text
       ELSE SubSeq(text, 1, Min(hits) - 1)
                \o MarkOpen \o SubSeq(text, Min(hits), Min(hits) + Len(query) - 1) \o MarkClose
                \o ReSubMark(Drop(text, Min(hits) + Len(query) - 1), query)

highlight_text(text, query) ==
    IF ~Truthy(query) \/ ~Truthy(text) THEN text
    ELSE ReSubMark(text, query)

\* the title record of a chapter, if its title holds the query
TitleMatches(chap, query, query_lower, search_scope) ==
    IF search_scope \in {"all", "title"} /\ Contains(Lower(chap.title), query_lower)
    THEN <<[type      |-> "title",
            content   |-> chap.title,
            highlight |-> highlight_text(chap.title, query)]>>
    ELSE <<>>

\* the record of paragraph number idx (from 0) counts from 0
FieldMatchFromZero(paragraph, idx, lang, text, query, query_lower) ==
    IF Contains(Lower(text), query_lower)
    THEN LET context_start == Max({0, Find(Lower(text), query_lower) - ContextChars})
             context_end   == Min({Len(text),
                                   Find(Lower(text), query_lower) + Len(query) + ContextChars})
             context       == Slice(text, context_start, context_end)
         IN <<[type           |-> "content",
               language       |-> lang,
               paragraph_id   |-> idx,
               content        |-> context,
               highlight      |-> highlight_text(context, query),
               full_paragraph |-> paragraph]>>
    ELSE <<>>

\* the content record of one language field of paragraph number idx (from 0)
FieldMatch(paragraph, idx, lang, text, query, query_lower) ==
    IF Contains(Lower(text), query_lower)
    THEN LET context_start == Max({0, Find(Lower(text), query_lower) - ContextChars})
             context_end   == Min({Len(text),
                                   Find(Lower(text), query_lower) + Len(query) + ContextChars})
             context       == Slice(text, context_start, context_end)
         IN <<[type           |-> "content",
               language       |-> lang,
               paragraph_id   |-> idx + 1,
               content        |-> context,
               highlight      |-> highlight_text(context, query),
               full_paragraph |-> paragraph]>>
    ELSE <<>>

\* the loop over [('wenyan', ...), ('baihua', ...), ('english', ...)]
ParagraphMatches(paragraph, idx, query, query_lower) ==
       FieldMatch(paragraph, idx, "wenyan", paragraph.wenyan, query, query_lower)
    \o FieldMatch(paragraph, idx, "baihua", paragraph.zh, query, query_lower)
    \o FieldMatch(paragraph, idx, "english", paragraph.en, query, query_lower)

RECURSIVE ParagraphsMatches(_, _, _, _)
\* the loop over enumerate(chapter.get('paragraphs', [])), from index idx on
ParagraphsMatches(paragraphs, idx, query, query_lower) ==
    IF idx >= Len(paragraphs) THEN <<>>
    ELSE ParagraphMatches(paragraphs[idx + 1], idx, query, query_lower)
             \o ParagraphsMatches(paragraphs, idx + 1, query, query_lower)

ContentMatches(chap, query, query_lower, search_scope) ==
    IF search_scope \in {"all", "content"}
    THEN ParagraphsMatches(chap.paragraphs, 0, query, query_lower)
    ELSE <<>>

\* every chapter is appended, matched or not
ChapterResultAlways(book, category, chap, query, query_lower, search_scope) ==
    LET matches == TitleMatches(chap, query, query_lower, search_scope)
                       \o ContentMatches(chap, query, query_lower, search_scope)
    IN <<[book |-> book, category |-> category, chapter |-> chap,
          matches |-> matches, relevance_score |-> Len(matches)]>>

\* what one chapter appends to results
ChapterResult(book, category, chap, query, query_lower, search_scope) ==
    LET matches == TitleMatches(chap, query, query_lower, search_scope)
                       \o ContentMatches(chap, query, query_lower, search_scope)
    IN IF Len(matches) > 0
       THEN <<[book |-> book, category |-> category, chapter |-> chap,
               matches |-> matches, relevance_score |-> Len(matches)]>>
       ELSE <<>>

RECURSIVE ChaptersResults(_, _, _, _, _, _)
ChaptersResults(book, category, chapters, query, query_lower, search_scope) ==
    IF chapters = <<>> THEN <<>>
    ELSE ChapterResult(book, category, Head(chapters), query, query_lower, search_scope)
             \o ChaptersResults(book, category, Tail(chapters), query, query_lower,
                                search_scope)

RECURSIVE CategoriesResults(_, _, _, _, _)
CategoriesResults(book, categories, query, query_lower, search_scope) ==
    IF categories = <<>> THEN <<>>
    ELSE ChaptersResults(book, Head(categories), Head(categories).chapters,
                         query, query_lower, search_scope)
             \o CategoriesResults(book, Tail(categories), query, query_lower, search_scope)

\* no book is skipped
BookSkippedNever(book, book_filter) == FALSE

\* "if book_filter and book['id'] != book_filter: continue"
BookSkipped(book, book_filter) == Truthy(book_filter) /\ book.id # book_filter

RECURSIVE BooksResults(_, _, _, _, _)
\* the loop over BOOKS
BooksResults(books, query, query_lower, search_scope, book_filter) ==
    IF books = <<>> THEN <<>>
    ELSE (IF BookSkipped(Head(books), book_filter) THEN <<>>
          ELSE CategoriesResults(Head(books), Head(books).categories,
                                 query, query_lower, search_scope))
             \o BooksResults(Tail(books), query, query_lower, search_scope, book_filter)

RECURSIVE InsertByScore(_, _)
\* r put behind every result whose score is at least its own
InsertByScore(rs, r) ==
    IF rs = <<>> THEN <<r>>
    ELSE IF Head(rs).relevance_score >= r.relevance_score
         THEN <<Head(rs)>> \o InsertByScore(Tail(rs), r)
         ELSE <<r>> \o rs

RECURSIVE InsertBeforeEqual(_, _)
InsertBeforeEqual(rs, r) ==
    IF rs = <<>> THEN <<r>>
    ELSE IF Head(rs).relevance_score > r.relevance_score
         THEN <<Head(rs)>> \o InsertBeforeEqual(Tail(rs), r)
         ELSE <<r>> \o rs

RECURSIVE SortTiesReversed(_)
\* a descending sort that is not stable
SortTiesReversed(rs) ==
    IF rs = <<>> THEN <<>>
    ELSE InsertBeforeEqual(SortTiesReversed(SubSeq(rs, 1, Len(rs) - 1)), rs[Len(rs)])

RECURSIVE SortByRelevance(_)
\* results.sort(key=lambda x: x['relevance_score'], reverse=True): stable
SortByRelevance(rs) ==
    IF rs = <<>> THEN <<>>
    ELSE InsertByScore(SortByRelevance(SubSeq(rs, 1, Len(rs) - 1)), rs[Len(rs)])

\* the query as matched, without .strip()
QueryLowerUnstripped(query) == Lower(query)

\* query.lower().strip()
QueryLower(query) == Strip(Lower(query))

\* search_in_books over the corpus books (the global BOOKS)
search_in_books(books, query, search_scope, book_filter) ==
    LET query_lower == QueryLower(query) IN
    IF ~Truthy(query_lower) THEN <<>>
    ELSE SortByRelevance(BooksResults(books, query, query_lower, search_scope, book_filter))

\* ------------------------------------------------------------------------
\* build_static.load_books_from_raw
\* ------------------------------------------------------------------------

\* a step that ended well with value v, and one that raised error e
Ok(v) == [raised |-> "", value |-> v]
Raise(e) == [raised |-> e]

\* two steps one after the other, each adding to a list: the first error
\* ends them
AndThen(first, rest) ==
    IF first.raised # "" THEN first
    ELSE IF rest.raised # "" THEN rest
    ELSE Ok(first.value \o rest.value)

\* the dict build_static.parse_three_parallel_file returns: the three full
\* texts, and no paragraph list
StaticParsed(acc) ==
    [wenyan |-> Join(NLNL, acc.wenyan_parts),
     zh     |-> Join(NLNL, acc.zh_parts),
     en     |-> Join(NLNL, acc.en_parts)]

\* build_static.parse_three_parallel_file
static_parse_three_parallel_file(f) ==
    IF f = FileNotFound THEN [wenyan |-> <<>>, zh |-> <<>>, en |-> <<>>]
    ELSE IF Strip(f) = <<>> THEN [wenyan |-> <<>>, zh |-> <<>>, en |-> <<>>]
    ELSE StaticParsed(ParseGroups(EmptyParts, Split(Strip(f), NLNL)))

\* filename[:-4], and what stands behind its first underscore
StaticChapterTitle(filename) ==
    IF HasChar(SubSeq(filename, 1, Len(filename) - 4), "_")
    THEN AfterFirst(SubSeq(filename, 1, Len(filename) - 4), "_")
    ELSE SubSeq(filename, 1, Len(filename) - 4)

\* the chapter made of the parsed content; content[k] raises KeyError for a
\* key the parser did not return
StaticChapterOf(content, i, filename) ==
    IF ~({"wenyan", "zh", "en", "paragraphs"} \subseteq DOMAIN content)
    THEN Raise("KeyError")
    ELSE Ok([id         |-> i + 1,
             title      |-> StaticChapterTitle(filename),
             wenyan     |-> content.wenyan,
             zh         |-> content.zh,
             en         |-> content.en,
             paragraphs |-> content.paragraphs])

\* the chapter appended for the i-th (from 0) sorted filename
StaticChapter(t, cat_path, i, filename) ==
    IF OpenError(t, PathJoin(cat_path, filename)) = "IsADirectoryError"
    THEN Raise("IsADirectoryError")
    ELSE StaticChapterOf(
             static_parse_three_parallel_file(ReadFile(t, PathJoin(cat_path, filename))),
             i, filename)

\* the outcomes of the turns of the chapter loop, were each of them run
ChapterOuts(t, cat_path, files) ==
    [k \in 1..Len(files) |-> StaticChapter(t, cat_path, k - 1, files[k])]

\* the chapter list, or the error of the first turn that raises
FirstRaiseOrAll(outs) ==
    IF \E k \in DOMAIN outs : outs[k].raised # ""
    THEN Raise(outs[Min({k \in DOMAIN outs : outs[k].raised # ""})].raised)
    ELSE Ok([k \in DOMAIN outs |-> outs[k].value])

\* the chapters of one category directory, up to the first error
StaticChapters(t, cat_path) ==
    FirstRaiseOrAll(ChapterOuts(t, cat_path,
                                Sorted({f \in ListDir(t, cat_path) : EndsWith(f, DotTxt)})))

\* the category appended when it has chapters
StaticCategoryOf(chapters, cat_dir, cat_title) ==
    IF chapters.raised # "" THEN chapters
    ELSE IF chapters.value # <<>>
    THEN Ok(<<[id |-> cat_dir, title |-> cat_title, chapters |-> chapters.value]>>)
    ELSE Ok(<<>>)

RECURSIVE StaticCategories(_, _, _, _)
\* the loop over sorted(os.listdir(book_path)) of a book in three levels
StaticCategories(t, book_path, book_config, cat_dirs) ==
    IF cat_dirs = <<>> THEN Ok(<<>>)
    ELSE AndThen(IF ~IsDir(t, PathJoin(book_path, Head(cat_dirs))) THEN Ok(<<>>)
                 ELSE StaticCategoryOf(StaticChapters(t, PathJoin(book_path, Head(cat_dirs))),
                                       Head(cat_dirs),
                                       CategoryTitle(book_config, Head(cat_dirs))),
                 StaticCategories(t, book_path, book_config, Tail(cat_dirs)))

\* text.splitlines(), for texts whose only line break is '\n'
SplitLines(text) ==
    IF text = <<>> THEN <<>>
    ELSE IF Split(text, <<NL>>)[Len(Split(text, <<NL>>))] = <<>>
    THEN SubSeq(Split(text, <<NL>>), 1, Len(Split(text, <<NL>>)) - 1)
    ELSE Split(text, <<NL>>)

\* line.startswith('## ')
IsHeading(line) == Len(line) >= 3 /\ SubSeq(line, 1, 3) = <<"#", "#", SP>>

\* the chapter the inner parse appends when it has a title or lines
OldFlush(st) ==
    IF st.cur_lines # <<>> \/ st.cur_title # <<>>
    THEN Append(st.chapters, [title   |-> Strip(st.cur_title),
                              content |-> Strip(Join(<<NL>>, st.cur_lines))])
    ELSE st.chapters

\* one turn of "for line in lines" of the inner parse
OldParseLine(st, line) ==
    IF IsHeading(line)
    THEN [chapters |-> OldFlush(st), cur_title |-> Strip(Drop(line, 3)), cur_lines |-> <<>>]
    ELSE [st EXCEPT !.cur_lines = Append(@, line)]

RECURSIVE OldParseLines(_, _)
\* "for line in lines" of the inner parse
OldParseLines(st, lines) ==
    IF lines = <<>> THEN st
    ELSE OldParseLines(OldParseLine(st, Head(lines)), Tail(lines))

\* what the inner parse returns for the chapters it found in text
OldParsed(chapters, text) ==
    IF chapters = <<>> THEN <<[title |-> <<>>, content |-> Strip(text)]>>
    ELSE chapters

\* the inner parse(text): chapters split at lines that begin with '## '
OldParse(text) ==
    OldParsed(OldFlush(OldParseLines([chapters |-> <<>>, cur_title |-> <<>>,
                                      cur_lines |-> <<>>], SplitLines(text))),
              text)

\* the text of an old-format file, '' when it cannot be found
OldRead(t, path) == IF OpenError(t, path) = "" THEN t[path].data ELSE <<>>

DigitChars == <<"0", "1", "2", "3", "4", "5", "6", "7", "8", "9">>

RECURSIVE Decimal(_)
\* str(n) of a natural number
Decimal(n) ==
    IF n < 10 THEN <<DigitChars[n + 1]>>
    ELSE Decimal(n \div 10) \o <<DigitChars[(n % 10) + 1]>>

wenyan_txt == <<"w", "e", "n", "y", "a", "n", ".", "t", "x", "t">>
zh_txt == <<"z", "h", ".", "t", "x", "t">>
en_txt == <<"e", "n", ".", "t", "x", "t">>

\* ch[i]['title'] if i < len(ch) else '' (i from 1), and the same for content
TitleAt(ch, i) == IF i <= Len(ch) THEN ch[i].title ELSE <<>>
ContentAt(ch, i) == IF i <= Len(ch) THEN ch[i].content ELSE <<>>

\* the first title that is not empty, or the number of the chapter
OldTitle(w, z, e, i) ==
    IF w # <<>> THEN w
    ELSE IF z # <<>> THEN z
    ELSE IF e # <<>> THEN e
    ELSE <<"U+7B2C">> \o Decimal(i) \o <<"U+7AE0">>

\* n: the shortest of the three lists when none is empty, else the longest
OldCount(ch_w, ch_z, ch_e) ==
    IF ch_w # <<>> /\ ch_z # <<>> /\ ch_e # <<>>
    THEN Min({Len(ch_w), Len(ch_z), Len(ch_e)})
    ELSE Max({Len(ch_w), Len(ch_z), Len(ch_e)})

\* the chapters made of the chapters of the three old-format files
OldChaptersOf(ch_w, ch_z, ch_e) ==
    [i \in 1..OldCount(ch_w, ch_z, ch_e) |->
        [id     |-> i,
         title  |-> OldTitle(TitleAt(ch_w, i), TitleAt(ch_z, i), TitleAt(ch_e, i), i),
         wenyan |-> ContentAt(ch_w, i),
         zh     |-> ContentAt(ch_z, i),
         en     |-> ContentAt(ch_e, i)]]

\* the chapters of a book in the old format
OldChapters(t, book_path) ==
    OldChaptersOf(OldParse(OldRead(t, PathJoin(book_path, wenyan_txt))),
                  OldParse(OldRead(t, PathJoin(book_path, zh_txt))),
                  OldParse(OldRead(t, PathJoin(book_path, en_txt))))

\* any(isdir(join(book_path, item)) for item in listdir(book_path)
\*     if not item.endswith('.txt'))
HasCategories(t, book_path) ==
    \E item \in ListDir(t, book_path) :
        ~EndsWith(item, DotTxt) /\ IsDir(t, PathJoin(book_path, item))

\* the book appended when it has categories
StaticBookOf(categories, book_id, book_title) ==
    IF categories.raised # "" THEN categories
    ELSE IF categories.value # <<>>
    THEN Ok(<<[id |-> book_id, title |-> book_title, categories |-> categories.value]>>)
    ELSE Ok(<<>>)

\* what one directory of RAW_DIR adds to books: nothing or one book
StaticBook(t, book_id) ==
    IF ~IsDir(t, <<book_id>>) THEN Ok(<<>>)
    ELSE IF HasCategories(t, <<book_id>>)
    THEN StaticBookOf(StaticCategories(t, <<book_id>>, BookConfig(book_id),
                                       Sorted(ListDir(t, <<book_id>>))),
                      book_id, BookConfig(book_id).name)
    ELSE IF \E name \in {wenyan_txt, zh_txt, en_txt} :
                OpenError(t, <<book_id, name>>) = "IsADirectoryError"
    THEN Raise("IsADirectoryError")
    ELSE Ok(<<[id         |-> book_id,
               title      |-> book_id,
               categories |-> <<[id       |-> <<"d", "e", "f", "a", "u", "l", "t">>,
                                 title    |-> <<"U+7AE0", "U+8282">>,
                                 chapters |-> OldChapters(t, <<book_id>>)]>>]>>)

RECURSIVE StaticBooks(_, _)
\* the loop over sorted(os.listdir(RAW_DIR)), up to the first error
StaticBooks(t, book_ids) ==
    IF book_ids = <<>> THEN Ok(<<>>)
    ELSE AndThen(StaticBook(t, Head(book_ids)), StaticBooks(t, Tail(book_ids)))

static_load_books_from_raw(t) ==
    IF ~IsDir(t, <<>>) THEN Ok(<<>>)
    ELSE StaticBooks(t, Sorted(ListDir(t, <<>>)))

\* what the run of the builder leaves: the error it raised, or its books
StaticOutcome(out) ==
    [run    |-> TRUE,
     raised |-> out.raised,
     books  |-> IF out.raised = "" THEN out.value ELSE <<>>]

\* the static export has not run
NotRun == [run |-> FALSE]

\* ------------------------------------------------------------------------
\* batch_import.create_three_parallel_content
\* ------------------------------------------------------------------------

\* text or ""
OrEmpty(text) == IF text = PyNone THEN <<>> ELSE text

\* [p.strip() for p in text.split('\n\n') if p.strip()]
StripParagraphs(text) == StripNonEmpty(Split(text, NLNL))

\* the lines of group i (from 1): the paragraphs of the three languages that
\* are not empty
GroupLinesAt(w_paragraphs, z_paragraphs, e_paragraphs, i) ==
    LET w == IF i <= Len(w_paragraphs) THEN w_paragraphs[i] ELSE <<>>
        z == IF i <= Len(z_paragraphs) THEN z_paragraphs[i] ELSE <<>>
        e == IF i <= Len(e_paragraphs) THEN e_paragraphs[i] ELSE <<>>
    IN (IF w # <<>> THEN <<w>> ELSE <<>>)
       \o (IF z # <<>> THEN <<z>> ELSE <<>>)
       \o (IF e # <<>> THEN <<e>> ELSE <<>>)

create_three_parallel_content(wenyan, zh, en) ==
    IF ~(Truthy(wenyan) \/ Truthy(zh) \/ Truthy(en)) THEN <<>>
    ELSE LET w_paragraphs == StripParagraphs(OrEmpty(wenyan))
             z_paragraphs == StripParagraphs(OrEmpty(zh))
             e_paragraphs == StripParagraphs(OrEmpty(en))
             max_paras == Max({Len(w_paragraphs), Len(z_paragraphs), Len(e_paragraphs)})
             group_lines == [i \in 1..max_paras |->
                                GroupLinesAt(w_paragraphs, z_paragraphs, e_paragraphs, i)]
             parallel_groups == [i \in 1..max_paras |-> Join(<<NL>>, group_lines[i])]
         IN Join(NLNL, SelectSeq(parallel_groups, LAMBDA g : g # <<>>))

\* ------------------------------------------------------------------------
\* app.get_statistics
\* ------------------------------------------------------------------------

\* stats before the loop
EmptyStats ==
    [total_books |-> 0, total_categories |-> 0, total_chapters |-> 0,
     total_paragraphs |-> 0, books_detail |-> <<>>]

RECURSIVE CountChapters(_, _)
\* "for chapter in category['chapters']": the paragraphs are counted
CountChapters(book_stats, chapters) ==
    IF chapters = <<>> THEN book_stats
    ELSE CountChapters([book_stats EXCEPT !.paragraphs = @ + Len(Head(chapters).paragraphs)],
                       Tail(chapters))

RECURSIVE CountCategories(_, _)
\* "for category in book['categories']": the chapters are counted
CountCategories(book_stats, categories) ==
    IF categories = <<>> THEN book_stats
    ELSE LET category == Head(categories) IN
         CountCategories(
             CountChapters([book_stats EXCEPT !.chapters = @ + Len(category.chapters)],
                           category.chapters),
             Tail(categories))

\* book_stats at the end of the loop body
BookStats(book) ==
    CountCategories([id |-> book.id, title |-> book.title,
                     categories |-> Len(book.categories),
                     chapters |-> 0, paragraphs |-> 0],
                    book.categories)

\* the paragraphs of the book are left out of the total
AddBookNoParagraphs(totals, book_stats) ==
    [totals EXCEPT !.books_detail = Append(@, book_stats),
                  !.total_categories = @ + book_stats.categories,
                  !.total_chapters = @ + book_stats.chapters]

\* the book is appended to books_detail and added to the totals
AddBook(totals, book_stats) ==
    [totals EXCEPT !.books_detail = Append(@, book_stats),
                  !.total_categories = @ + book_stats.categories,
                  !.total_chapters = @ + book_stats.chapters,
                  !.total_paragraphs = @ + book_stats.paragraphs]

\* one turn of "for book in BOOKS"
StatsStep(totals, book) == AddBook(totals, BookStats(book))

RECURSIVE CountBooks(_, _)
\* "for book in BOOKS"
CountBooks(totals, books) ==
    IF books = <<>> THEN totals
    ELSE CountBooks(StatsStep(totals, Head(books)), Tail(books))

get_statistics(books) ==
    [CountBooks(EmptyStats, books) EXCEPT !.total_books = Len(books)]

\* ------------------------------------------------------------------------
\* app.chapter_page
\* ------------------------------------------------------------------------

\* the places <<book, category, chapter>> of the corpus whose book and
\* chapter ids are the ones asked for, in whatever category
PageHitsAnyCategory(books, book_id, category_id, chapter_id) ==
    {h \in UNION {UNION {{<<b, c, k>> : k \in 1..Len(books[b].categories[c].chapters)} :
                            c \in 1..Len(books[b].categories)} : b \in 1..Len(books)} :
        /\ books[h[1]].id = book_id
        /\ books[h[1]].categories[h[2]].chapters[h[3]].id = chapter_id}

\* the places <<book, category, chapter>> of the corpus whose three ids are
\* the ones asked for
PageHits(books, book_id, category_id, chapter_id) ==
    {h \in UNION {UNION {{<<b, c, k>> : k \in 1..Len(books[b].categories[c].chapters)} :
                            c \in 1..Len(books[b].categories)} : b \in 1..Len(books)} :
        /\ books[h[1]].id = book_id
        /\ books[h[1]].categories[h[2]].id = category_id
        /\ books[h[1]].categories[h[2]].chapters[h[3]].id = chapter_id}

\* the place the three nested loops reach first
FirstHit(hits) ==
    CHOOSE h \in hits : \A g \in hits :
        \/ h[1] < g[1]
        \/ h[1] = g[1] /\ h[2] < g[2]
        \/ h[1] = g[1] /\ h[2] = g[2] /\ h[3] <= g[3]

\* f"/book/{book_id}/{category_id}/chapter/{id}/", by its three parts
ChapterUrl(book_id, category_id, id) ==
    [book_id |-> book_id, category_id |-> category_id, chapter_id |-> id]

\* what chapter_page answers: the arguments of render_template, or abort(404)
chapter_page(books, book_id, category_id, chapter_id) ==
    LET hits == PageHits(books, book_id, category_id, chapter_id) IN
    IF hits = {} THEN [status |-> 404]
    ELSE LET h        == FirstHit(hits)
             book     == books[h[1]]
             category == book.categories[h[2]]
             chapter_ == category.chapters[h[3]]
             chapters == category.chapters
             \* next(i for i, ch in enumerate(chapters) if ch['id'] == chapter_id)
             chapter_idx == Min({i \in 1..Len(chapters) : chapters[i].id = chapter_id}) - 1
         IN [status   |-> 200,
             book     |-> book,
             category |-> category,
             chapter  |-> [id |-> chapter_.id, title |-> chapter_.title,
                           wenyan |-> chapter_.wenyan, z |-> chapter_.zh,
                           en |-> chapter_.en, paragraphs |-> chapter_.paragraphs],
             prev_url |-> IF chapter_idx > 0
                          THEN ChapterUrl(book_id, category_id, chapters[chapter_idx].id)
                          ELSE [none |-> TRUE],
             next_url |-> IF chapter_idx < Len(chapters) - 1
                          THEN ChapterUrl(book_id, category_id, chapters[chapter_idx + 2].id)
                          ELSE [none |-> TRUE]]

\* ------------------------------------------------------------------------
\* The parser applied to every file content up to MaxLen characters
\* ------------------------------------------------------------------------

FileChars == {"a", "b", SP, NL}

FileContents == UNION {[1..n -> FileChars] : n \in 0..MaxLen}

InitParse ==
    /\ pc = "file"
    /\ file \in FileContents \cup {FileNotFound}
    /\ chapter = None
    /\ tree = None
    /\ BOOKS = None
    /\ call = None
    /\ results = None
    /\ stats = None
    /\ page = None
    /\ static = NotRun
    /\ texts = None
    /\ req = None

ParseFile ==
    /\ pc = "file"
    /\ chapter' = parse_three_parallel_file(file)
    /\ pc' = "parsed"
    /\ UNCHANGED <<file, tree, BOOKS, call, results, stats, page, static, texts, req>>

NextParse == ParseFile

SpecParse == InitParse /\ [][NextParse]_vars

\* ------------------------------------------------------------------------
\* The site: the corpus is built once from the file tree, then searched
\* ------------------------------------------------------------------------

\* the characters around the query in the long chapter text
PadLen == 60

\* n times the character c
Pad(c, n) == [i \in 1..n |-> c]

\* one group of three lines
TextA == <<"A", "b", NL, "a", "b", NL, "b", SP, "a">>

\* a one-line group and a two-line group
TextB == <<"b", NL, NL, "a", "B", NL, "A">>

\* one group of three long lines: the query in the middle, exactly
\* ContextChars from the start, and at the start
TextLong ==
    Pad("x", PadLen) \o <<"a", "B">> \o Pad("y", PadLen) \o <<NL>>
        \o Pad("x", ContextChars) \o <<"a", "b">> \o Pad("y", ContextChars + 1) \o <<NL>>
        \o <<"a", "b">> \o Pad("y", PadLen)

NoFile == [kind |-> "none"]
FileA == [kind |-> "file", data |-> TextA]
FileB == [kind |-> "file", data |-> TextB]
FileLong == [kind |-> "file", data |-> TextLong]

xbook == <<"x">>
zz == <<"z", "z">>

ab_txt == <<"0", "1", "_", "A", "b", ".", "t", "x", "t">>
b_txt == <<"b", ".", "t", "x", "t">>
a_b_txt == <<"2", "_", "a", "_", "b", ".", "t", "x", "t">>
Ab_txt == <<"A", "b", ".", "t", "x", "t">>

\* the chapter files a tree may hold
FileSlots ==
    {<<shiji, benji, ab_txt>>, <<shiji, benji, b_txt>>, <<shiji, zz, a_b_txt>>,
     <<xbook, benji, Ab_txt>>}

\* what a chapter file may be: absent, or one of the texts
FileOptions(p) ==
    IF p = <<shiji, benji, ab_txt>> THEN {NoFile, FileA, FileB, FileLong}
    ELSE IF p = <<shiji, benji, b_txt>> THEN {NoFile, FileA, FileB}
    ELSE IF p = <<shiji, zz, a_b_txt>> THEN {NoFile, FileB}
    ELSE {NoFile, FileA}

\* the tree that holds the files of assignment a and the directories above them
TreeOf(a) ==
    LET files == {p \in FileSlots : a[p].kind # "none"}
        dirs  == {<<>>} \cup {SubSeq(p, 1, 1) : p \in files}
                        \cup {SubSeq(p, 1, 2) : p \in files}
    IN [p \in files \cup dirs |-> IF p \in files THEN a[p] ELSE [kind |-> "dir"]]

\* RAW_DIR does not exist
NoTree == [p \in {} |-> [kind |-> "dir"]]

Trees ==
    {TreeOf(a) : a \in {f \in [FileSlots -> {NoFile, FileA, FileB, FileLong}] :
                            \A p \in FileSlots : f[p] \in FileOptions(p)}}
        \cup {NoTree}

Queries ==
    {<<>>, <<SP>>, <<"a">>, <<"b">>, <<"q">>, <<"a", "b">>, <<"A", "B">>,
     <<"a", "b", SP>>, <<SP, "b">>, <<"b", SP, "a">>}

Scopes == {"all", "title", "content", "other"}

Filters == {PyNone, <<>>, shiji, xbook, hanshu}

Init ==
    /\ pc = "boot"
    /\ tree \in Trees
    /\ BOOKS = <<>>
    /\ call = None
    /\ results = <<>>
    /\ file = None
    /\ chapter = None
    /\ stats = None
    /\ page = None
    /\ static = NotRun
    /\ texts = None
    /\ req = None

\* "BOOKS = load_books_from_raw()" at import
Load ==
    /\ pc = "boot"
    /\ IF LoadRaises(tree)
       THEN BOOKS' = BOOKS /\ pc' = "crashed"
       ELSE BOOKS' = load_books_from_raw(tree) /\ pc' = "serving"
    /\ UNCHANGED <<tree, call, results, file, chapter, stats, page, static, texts, req>>

\* one call of search_in_books
Search(query, search_scope, book_filter) ==
    /\ pc = "serving"
    /\ call' = [query |-> query, search_scope |-> search_scope,
                book_filter |-> book_filter]
    /\ results' = search_in_books(BOOKS, query, search_scope, book_filter)
    /\ pc' = "searched"
    /\ UNCHANGED <<tree, BOOKS, file, chapter, stats, page, static, texts, req>>

\* one call of get_statistics (GET /api/stats)
Stats ==
    /\ pc = "serving"
    /\ stats' = get_statistics(BOOKS)
    /\ pc' = "counted"
    /\ UNCHANGED <<tree, BOOKS, call, results, file, chapter, page, static, texts, req>>

\* the ids a chapter page is asked for
PageBooks == {shiji, xbook, hanshu}
PageCategories == {benji, zz, shu}
PageChapters == 0..3

\* one call of chapter_page
ChapterPage(book_id, category_id, chapter_id) ==
    /\ pc = "serving"
    /\ call' = [book_id |-> book_id, category_id |-> category_id,
                chapter_id |-> chapter_id]
    /\ page' = chapter_page(BOOKS, book_id, category_id, chapter_id)
    /\ pc' = "paged"
    /\ UNCHANGED <<tree, BOOKS, results, file, chapter, stats, static, texts, req>>

\* the request is answered and what was made for it dropped; the site
\* serves on
Respond ==
    /\ pc \in {"searched", "counted", "paged"}
    /\ pc' = "serving"
    /\ call' = None
    /\ results' = <<>>
    /\ stats' = None
    /\ page' = None
    /\ UNCHANGED <<tree, BOOKS, file, chapter, static, texts, req>>

Next ==
    \/ Load
    \/ \E query \in Queries, search_scope \in Scopes, book_filter \in Filters :
           Search(query, search_scope, book_filter)
    \/ Stats
    \/ \E book_id \in PageBooks, category_id \in PageCategories,
          chapter_id \in PageChapters :
           ChapterPage(book_id, category_id, chapter_id)
    \/ Respond

Spec == Init /\ [][Next]_vars

\* ------------------------------------------------------------------------
\* The corpus build over file trees of every shape
\* ------------------------------------------------------------------------

Dir == [kind |-> "dir"]
Link == [kind |-> "link"]

\* the entry at path is absent, or one of entries
Maybe(path, entries) == {NoTree} \cup {path :> e : e \in entries}

\* the trees that hold one tree of A and one of B
Both(A, B) == {a @@ b : a \in A, b \in B}

\* the directory at path is absent, or holds one of the trees of inside
DirWith(path, inside) == {NoTree} \cup {(path :> Dir) @@ c : c \in inside}

readme == <<"r", "e", "a", "d", "m", "e">>
n_txt == <<"n", ".", "t", "x", "t">>
ten_b_txt == <<"1", "0", "_", "b", ".", "t", "x", "t">>
a_md == <<"a", ".", "m", "d">>
u_a_txt == <<"_", "a", ".", "t", "x", "t">>
d_txt == <<"d", ".", "t", "x", "t">>
a_u_txt == <<"a", "_", ".", "t", "x", "t">>
b_txt_txt == <<"b", ".", "t", "x", "t", ".", "t", "x", "t">>

\* an old-format text: a chapter heading and a line
TextOld == <<"#", "#", SP, "T", NL, "a">>
FileOld == [kind |-> "file", data |-> TextOld]

\* shiji/benji: chapter files, one of them perhaps a link to nothing, and a
\* file that is no chapter
ShijiBenji ==
    DirWith(<<shiji, benji>>,
            Both(Both(Maybe(<<shiji, benji, ten_b_txt>>, {FileA}),
                      Maybe(<<shiji, benji, a_b_txt>>, {FileB})),
                 Both(Maybe(<<shiji, benji, Ab_txt>>, {FileA, Link}),
                      Maybe(<<shiji, benji, a_md>>, {FileA}))))

\* shiji/zz: a chapter file and a directory named like one
ShijiZz ==
    DirWith(<<shiji, zz>>,
            Both(Maybe(<<shiji, zz, u_a_txt>>, {FileA}),
                 Maybe(<<shiji, zz, d_txt>>, {Dir})))

ShijiTrees ==
    DirWith(<<shiji>>, Both(Maybe(<<shiji, n_txt>>, {FileA}), Both(ShijiBenji, ShijiZz)))

\* x: a book the table does not know
XTrees ==
    DirWith(<<xbook>>,
            Both(Maybe(<<xbook, wenyan_txt>>, {FileOld}),
                 DirWith(<<xbook, benji>>,
                         Both(Maybe(<<xbook, benji, a_u_txt>>, {FileB}),
                              Maybe(<<xbook, benji, b_txt_txt>>, {FileA})))))

LoadTrees ==
    {NoTree} \cup
    {(<<>> :> Dir) @@ c : c \in Both(Maybe(<<readme>>, {FileA}), Both(ShijiTrees, XTrees))}

InitLoad ==
    /\ pc = "boot"
    /\ tree \in LoadTrees
    /\ BOOKS = <<>>
    /\ call = None
    /\ results = <<>>
    /\ file = None
    /\ chapter = None
    /\ stats = None
    /\ page = None
    /\ static = NotRun
    /\ texts = None
    /\ req = None

\* "books = load_books_from_raw()" of build_static, run on the same tree
StaticBuild ==
    /\ ~static.run
    /\ static' = StaticOutcome(static_load_books_from_raw(tree))
    /\ UNCHANGED <<pc, tree, BOOKS, call, results, file, chapter, stats, page, texts, req>>

NextLoad == Load \/ StaticBuild

SpecLoad == InitLoad /\ [][NextLoad]_vars

\* ------------------------------------------------------------------------
\* Requests served side by side
\* ------------------------------------------------------------------------

\* the threads that serve requests
NumWorkers == 2
Workers == 1..NumWorkers

\* every thread works on the locals of the first one
FrameShared(w) == 1

\* the locals (results, stats) a thread works on: those of its own call
Frame(w) == w

ConcTrees ==
    {TreeOf(a) : a \in {f \in [FileSlots -> {NoFile, FileA, FileB}] :
                            /\ \A p \in FileSlots : f[p] \in FileOptions(p)
                            /\ f[<<shiji, benji, ab_txt>>] = FileA
                            /\ f[<<shiji, benji, b_txt>>] # FileA
                            /\ f[<<shiji, zz, a_b_txt>>] = NoFile}}

\* the calls: searches, one of them with a blank query, and the statistics
ConcCalls ==
    {[op |-> "search", query |-> <<"a">>, search_scope |-> "all", book_filter |-> PyNone],
     [op |-> "search", query |-> <<"b">>, search_scope |-> "title", book_filter |-> shiji],
     [op |-> "search", query |-> <<SP>>, search_scope |-> "all", book_filter |-> PyNone],
     [op |-> "stats", query |-> <<>>, search_scope |-> "all", book_filter |-> PyNone]}

Idle == [op |-> "idle", query |-> <<>>, search_scope |-> "all", book_filter |-> PyNone]

InitConc ==
    /\ pc = "boot"
    /\ tree \in ConcTrees
    /\ BOOKS = <<>>
    /\ call = None
    /\ results = <<>>
    /\ file = None
    /\ chapter = None
    /\ stats = None
    /\ page = None
    /\ static = NotRun
    /\ texts = None
    /\ req = [call    |-> [w \in Workers |-> Idle],
              phase   |-> [w \in Workers |-> "idle"],
              i       |-> [w \in Workers |-> 1],
              results |-> [w \in Workers |-> <<>>],
              stats   |-> [w \in Workers |-> EmptyStats]]

\* a thread enters search_in_books or get_statistics: the locals are made;
\* a blank query returns at once
Begin(w, c) ==
    /\ pc = "serving"
    /\ req.phase[w] = "idle"
    /\ req' = [req EXCEPT
                 !.call[w] = c,
                 !.i[w] = 1,
                 !.phase[w] = IF c.op = "search" /\ ~Truthy(QueryLower(c.query))
                              THEN "returned" ELSE "loop",
                 !.results[Frame(w)] = IF c.op = "search" THEN <<>> ELSE @,
                 !.stats[Frame(w)] = IF c.op = "stats" THEN EmptyStats ELSE @]
    /\ UNCHANGED <<pc, tree, BOOKS, call, results, file, chapter, stats, page, static, texts>>

\* one turn of "for book in BOOKS" of a thread
Step(w) ==
    /\ req.phase[w] = "loop"
    /\ req.i[w] <= Len(BOOKS)
    /\ LET c    == req.call[w]
           book == BOOKS[req.i[w]]
       IN req' = [req EXCEPT
                    !.i[w] = @ + 1,
                    !.results[Frame(w)] =
                        IF c.op = "search"
                        THEN @ \o BooksResults(<<book>>, c.query, QueryLower(c.query),
                                               c.search_scope, c.book_filter)
                        ELSE @,
                    !.stats[Frame(w)] = IF c.op = "stats" THEN StatsStep(@, book) ELSE @]
    /\ UNCHANGED <<pc, tree, BOOKS, call, results, file, chapter, stats, page, static, texts>>

\* the loop is over: the results are sorted, or the books counted, and the
\* call returns
Finish(w) ==
    /\ req.phase[w] = "loop"
    /\ req.i[w] > Len(BOOKS)
    /\ req' = [req EXCEPT
                 !.phase[w] = "returned",
                 !.results[Frame(w)] =
                     IF req.call[w].op = "search" THEN SortByRelevance(@) ELSE @,
                 !.stats[Frame(w)] =
                     IF req.call[w].op = "stats"
                     THEN [@ EXCEPT !.total_books = Len(BOOKS)] ELSE @]
    /\ UNCHANGED <<pc, tree, BOOKS, call, results, file, chapter, stats, page, static, texts>>

\* the thread has answered and is free for the next request; the locals of
\* the call are gone
Return(w) ==
    /\ req.phase[w] = "returned"
    /\ req' = [req EXCEPT !.phase[w] = "idle", !.call[w] = Idle, !.i[w] = 1,
                          !.results[Frame(w)] = <<>>,
                          !.stats[Frame(w)] = EmptyStats]
    /\ UNCHANGED <<pc, tree, BOOKS, call, results, file, chapter, stats, page, static, texts>>

NextConc ==
    \/ Load
    \/ \E w \in Workers, c \in ConcCalls : Begin(w, c)
    \/ \E w \in Workers : Step(w)
    \/ \E w \in Workers : Finish(w)
    \/ \E w \in Workers : Return(w)

SpecConc == InitConc /\ [][NextConc]_vars

\* ------------------------------------------------------------------------
\* A chapter written by the importer and read by the parser
\* ------------------------------------------------------------------------

\* the longest text of one language
MaxText == 4

\* the texts of one language up to MaxText characters: a letter and newlines
TextsOver(letter) == UNION {[1..n -> {letter, NL}] : n \in 0..MaxText}

InitImport ==
    /\ pc = "texts"
    /\ texts \in [wenyan : TextsOver("w") \cup {PyNone},
                  zh     : TextsOver("z"),
                  en     : TextsOver("e")]
    /\ tree = NoTree
    /\ BOOKS = <<>>
    /\ call = None
    /\ results = <<>>
    /\ file = None
    /\ chapter = None
    /\ stats = None
    /\ page = None
    /\ static = NotRun
    /\ req = None

\* import_from_csv writes the content of the chapter file
WriteChapter ==
    /\ pc = "texts"
    /\ file' = create_three_parallel_content(texts.wenyan, texts.zh, texts.en)
    /\ pc' = "written"
    /\ UNCHANGED <<chapter, tree, BOOKS, call, results, stats, page, static, texts, req>>

\* the site parses the file the importer wrote
ReadChapter ==
    /\ pc = "written"
    /\ chapter' = parse_three_parallel_file(file)
    /\ pc' = "imported"
    /\ UNCHANGED <<file, tree, BOOKS, call, results, stats, page, static, texts, req>>

NextImport == WriteChapter \/ ReadChapter

SpecImport == InitImport /\ [][NextImport]_vars

\* ------------------------------------------------------------------------
\* The three-parallel format, stated on positions of the text
\* ------------------------------------------------------------------------

\* the text without its leading and trailing whitespace
Trimmed(s) ==
    LET ink == {i \in 1..Len(s) : ~IsSpace(s[i])} IN
    IF ink = {} THEN <<>> ELSE SubSeq(s, Min(ink), Max(ink))

\* the maximal stretches of s that hold no position of cuts, left to right
Pieces(s, cuts) ==
    LET keep   == (1..Len(s)) \ cuts
        starts == {i \in keep : (i - 1) \notin keep}
        EndOf(i) == Min({j \in i..Len(s) : (j + 1) \notin keep})
        Nth(k) == CHOOSE i \in starts : Cardinality({j \in starts : j < i}) = k - 1
    IN [k \in 1..Cardinality(starts) |-> SubSeq(s, Nth(k), EndOf(Nth(k)))]

\* the newlines that stand in a run of two or more
InRun(s) ==
    {i \in 1..Len(s) : /\ s[i] = NL
                       /\ \/ (i > 1 /\ s[i - 1] = NL)
                          \/ (i < Len(s) /\ s[i + 1] = NL)}

\* the groups of a file: what runs of two or more newlines separate
GroupsOf(s) == Pieces(Trimmed(s), InRun(Trimmed(s)))

NonEmptySeq(t) == t # <<>>

TrimEach(ps) == [k \in 1..Len(ps) |-> Trimmed(ps[k])]

\* the non-empty trimmed lines of a group
LinesOf(g) == SelectSeq(TrimEach(Pieces(g, {i \in 1..Len(g) : g[i] = NL})), NonEmptySeq)

HasLine(g) == LinesOf(g) # <<>>

\* the groups that hold at least one non-empty line, in file order
TextGroupsOf(s) == SelectSeq(GroupsOf(s), HasLine)

\* line k of a group, '' when the group has fewer lines
LineOrEmpty(g, k) == IF Len(LinesOf(g)) >= k THEN LinesOf(g)[k] ELSE <<>>

\* the longest run of newlines inside the trimmed text
LongestRun(s) ==
    LET t == Trimmed(s) IN
    Max({0} \cup {n \in 1..Len(t) :
                    \E i \in 1..(Len(t) - n + 1) : \A j \in i..(i + n - 1) : t[j] = NL})

Parsed == pc = "parsed" /\ file # FileNotFound

\* C1: each group with k >= 1 non-empty trimmed lines gives a paragraph with
\* the three keys wenyan, zh, en, whose original is line 1, whose vernacular
\* is line 2 (or '' when k < 2) and whose translation is line 3 (or '' when
\* k < 3); a fourth or later line is in no field.
C1_GroupFields ==
    Parsed =>
        LET gs == TextGroupsOf(file) IN
        \A i \in 1..Len(gs) :
            /\ i <= Len(chapter.paragraphs)
            /\ DOMAIN chapter.paragraphs[i] = {"wenyan", "zh", "en"}
            /\ chapter.paragraphs[i].wenyan = LinesOf(gs[i])[1]
            /\ chapter.paragraphs[i].zh = LineOrEmpty(gs[i], 2)
            /\ chapter.paragraphs[i].en = LineOrEmpty(gs[i], 3)

\* a file whose group has four lines was parsed
C1_Witness ==
    /\ Parsed
    /\ \E i \in 1..Len(TextGroupsOf(file)) : Len(LinesOf(TextGroupsOf(file)[i])) >= 4
    /\ Len(chapter.paragraphs) >= 1

\* C2: a run of two or more newlines is one separator: there are as many
\* paragraphs as groups with a non-empty line, paragraph i comes from the
\* i-th such group, and a blank group gives no paragraph.
C2_GroupCount ==
    Parsed =>
        LET gs == TextGroupsOf(file) IN
        /\ Len(chapter.paragraphs) = Len(gs)
        /\ \A i \in 1..Len(chapter.paragraphs) :
               i <= Len(gs) => chapter.paragraphs[i].wenyan = LinesOf(gs[i])[1]

\* a file with a run of four newlines between two groups was parsed
C2_Witness ==
    /\ Parsed
    /\ LongestRun(file) >= 4
    /\ Len(chapter.paragraphs) = 2

FieldOf(ps, lang) == [k \in 1..Len(ps) |-> ps[k][lang]]

\* C3: each full string is its language's paragraph fields joined by a blank
\* line, so a chapter with n >= 1 paragraphs has n segments in each of the
\* three strings, empty fields included.
C3_FullIsJoin ==
    pc = "parsed" =>
        \A lang \in {"wenyan", "zh", "en"} :
            /\ chapter[lang] = Join(NLNL, FieldOf(chapter.paragraphs, lang))
            /\ Len(chapter.paragraphs) >= 1 =>
                   Split(chapter[lang], NLNL) = FieldOf(chapter.paragraphs, lang)

\* a chapter of two paragraphs, the first with no vernacular line, was parsed
C3_Witness ==
    /\ Parsed
    /\ Len(chapter.paragraphs) = 2
    /\ chapter.paragraphs[1].zh = <<>>
    /\ chapter.paragraphs[2].zh # <<>>
    /\ chapter.zh = NLNL \o chapter.paragraphs[2].zh

\* ------------------------------------------------------------------------
\* Search, stated on the corpus and the call
\* ------------------------------------------------------------------------

Searched == pc = "searched"

\* the query as it is matched: lower-cased, without surrounding whitespace
Needle == Trimmed(Lower(call.query))

\* text holds the needle at position i, whatever the case of its letters
OccursAt(text, i) ==
    /\ i + Len(Needle) - 1 <= Len(text)
    /\ \A j \in 1..Len(Needle) : LowerChar(text[i + j - 1]) = Needle[j]

\* text holds the query, whatever the case of its letters
HoldsQuery(text) == Needle # <<>> /\ \E i \in 1..Len(text) : OccursAt(text, i)

\* the corpus keys of the three languages and the tags of their records
LangKeys == {"wenyan", "zh", "en"}
LangTag(key) == IF key = "wenyan" THEN "wenyan" ELSE IF key = "zh" THEN "baihua" ELSE "english"

\* the chapters of the corpus: <<book, category, chapter>> positions
Positions ==
    UNION {UNION {{<<b, c, h>> : h \in 1..Len(BOOKS[b].categories[c].chapters)} :
                     c \in 1..Len(BOOKS[b].categories)} :
              b \in 1..Len(BOOKS)}

BookAt(pos) == BOOKS[pos[1]]
CategoryAt(pos) == BOOKS[pos[1]].categories[pos[2]]
ChapterAt(pos) == BOOKS[pos[1]].categories[pos[2]].chapters[pos[3]]

\* the chapter a result is about
PosOf(r) ==
    CHOOSE pos \in Positions :
        /\ BookAt(pos).id = r.book.id
        /\ CategoryAt(pos).id = r.category.id
        /\ ChapterAt(pos).id = r.chapter.id

\* the walk of the corpus reaches p before q
Before(p, q) ==
    \/ p[1] < q[1]
    \/ p[1] = q[1] /\ p[2] < q[2]
    \/ p[1] = q[1] /\ p[2] = q[2] /\ p[3] < q[3]

TitleScope == call.search_scope \in {"all", "title"}
ContentScope == call.search_scope \in {"all", "content"}

\* the fields of a chapter that hold the query: <<paragraph number, key>>
FieldsHolding(chap) ==
    {f \in (1..Len(chap.paragraphs)) \X LangKeys : HoldsQuery(chap.paragraphs[f[1]][f[2]])}

\* the match records a chapter is due under the scope of the call
RecordsDue(chap) ==
    (IF TitleScope /\ HoldsQuery(chap.title) THEN 1 ELSE 0)
        + (IF ContentScope THEN Cardinality(FieldsHolding(chap)) ELSE 0)

\* the book is searched under the filter of the call
PassesFilter(book) ==
    call.book_filter \in {PyNone, <<>>} \/ book.id = call.book_filter

ResultsAt(pos) == {i \in 1..Len(results) : PosOf(results[i]) = pos}

\* C4: a chapter is in the result list exactly when its book passes the
\* filter and it has a match record under the scope, it is there once, and
\* its relevance_score is the number of its match records: one for a matching
\* title and one for each language field of each paragraph that matches.
C4_ResultsAndScore ==
    Searched =>
        /\ \A pos \in Positions :
               Cardinality(ResultsAt(pos)) =
                   IF PassesFilter(BookAt(pos)) /\ RecordsDue(ChapterAt(pos)) > 0
                   THEN 1 ELSE 0
        /\ \A i \in 1..Len(results) :
               /\ \E pos \in Positions :
                      /\ BookAt(pos) = results[i].book
                      /\ CategoryAt(pos) = results[i].category
                      /\ ChapterAt(pos) = results[i].chapter
               /\ results[i].relevance_score = Len(results[i].matches)
               /\ results[i].relevance_score = RecordsDue(ChapterAt(PosOf(results[i])))

\* a search gave a chapter with a title record and two content records, and
\* left a chapter of the corpus out
C4_Witness ==
    /\ Searched
    /\ \E i \in 1..Len(results) :
           /\ results[i].relevance_score >= 3
           /\ results[i].matches[1].type = "title"
    /\ \E pos \in Positions : ResultsAt(pos) = {}

\* C5: the result list is in non-increasing order of relevance_score, and
\* results of equal score stand in the order of the corpus walk: book, then
\* category, then chapter.
C5_Ranking ==
    Searched =>
        \A i, j \in 1..Len(results) :
            i < j =>
                /\ results[i].relevance_score >= results[j].relevance_score
                /\ results[i].relevance_score = results[j].relevance_score
                       => Before(PosOf(results[i]), PosOf(results[j]))

\* a search ranked a later chapter above an earlier one, and two chapters of
\* different books tied
C5_Witness ==
    /\ Searched
    /\ \E i, j \in 1..Len(results) :
           /\ i < j
           /\ Before(PosOf(results[j]), PosOf(results[i]))
    /\ \E i, j \in 1..Len(results) :
           /\ i < j
           /\ results[i].relevance_score = results[j].relevance_score
           /\ results[i].book.id # results[j].book.id

\* the field of its paragraph that a content record is about
FieldOfRecord(m) ==
    m.full_paragraph[CHOOSE key \in LangKeys : LangTag(key) = m.language]

\* the first position at which text holds the query
FirstOccurrence(text) == Min({i \in 1..Len(text) : OccursAt(text, i)})

ContentRecords(r) == {k \in 1..Len(r.matches) : r.matches[k].type = "content"}
TitleRecords(r) == {k \in 1..Len(r.matches) : r.matches[k].type = "title"}

\* C6: for a query that is not empty after trimming, the context of a content
\* record is the field from ContextChars characters before the first
\* occurrence of the query (or the field start) to ContextChars characters
\* behind the end of that occurrence (or the field end), and no further.
C6_ContextWindow ==
    Searched =>
        \A i \in 1..Len(results) : \A k \in ContentRecords(results[i]) :
            LET m    == results[i].matches[k]
                text == FieldOfRecord(m)
                from == FirstOccurrence(text)
                to   == from + Len(Needle) - 1
            IN m.content = SubSeq(text, Max({1, from - ContextChars}),
                                        Min({Len(text), to + ContextChars}))

\* h holds p from position b on
HoldsAt(h, b, p) == b + Len(p) - 1 <= Len(h) /\ SubSeq(h, b, b + Len(p) - 1) = p

\* the positions of h that belong to an emphasis marker
MarkerPositions(h) ==
    {i \in 1..Len(h) :
        \E b \in 1..i :
            \/ b + Len(MarkOpen) > i /\ HoldsAt(h, b, MarkOpen)
            \/ b + Len(MarkClose) > i /\ HoldsAt(h, b, MarkClose)}

RECURSIVE Concat(_)
Concat(ps) == IF ps = <<>> THEN <<>> ELSE Head(ps) \o Concat(Tail(ps))

\* h with its markers removed
Unmarked(h) == Concat(Pieces(h, MarkerPositions(h)))

\* h holds an occurrence of the query between an opening and a closing marker
HasMarkedOccurrence(h) ==
    \E b \in 1..Len(h) :
        /\ HoldsAt(h, b, MarkOpen)
        /\ OccursAt(h, b + Len(MarkOpen))
        /\ HoldsAt(h, b + Len(MarkOpen) + Len(Needle), MarkClose)

\* C7: every match record has a raw and a highlighted form; the highlighted
\* form without its markers is the raw form, and it marks at least one
\* occurrence of the query.
C7_Highlight ==
    Searched =>
        \A i \in 1..Len(results) : \A k \in 1..Len(results[i].matches) :
            LET m == results[i].matches[k] IN
            /\ {"content", "highlight"} \subseteq DOMAIN m
            /\ Unmarked(m.highlight) = m.content
            /\ HasMarkedOccurrence(m.highlight)

RecordsOf(r, key, n) ==
    {k \in ContentRecords(r) :
        r.matches[k].language = LangTag(key) /\ r.matches[k].paragraph_id = n}

\* C8: scope 'title' gives title records only, at most one per chapter; scope
\* 'content' gives content records only; scope 'all' gives both kinds.  Under
\* a content scope each language field of each paragraph that holds the query
\* has exactly one record, tagged with its language and the 1-based number of
\* its paragraph, and a field that does not hold the query has none.
C8_Scope ==
    Searched =>
        \A i \in 1..Len(results) :
            LET r    == results[i]
                chap == ChapterAt(PosOf(r))
            IN /\ call.search_scope = "title" =>
                      ContentRecords(r) = {} /\ Cardinality(TitleRecords(r)) = 1
               /\ call.search_scope = "content" => TitleRecords(r) = {}
               /\ call.search_scope = "all" =>
                      Cardinality(TitleRecords(r)) = IF HoldsQuery(chap.title) THEN 1 ELSE 0
               /\ \A k \in TitleRecords(r) : r.matches[k].content = chap.title
               /\ ContentScope =>
                      \A n \in 1..Len(chap.paragraphs) : \A key \in LangKeys :
                          Cardinality(RecordsOf(r, key, n)) =
                              IF HoldsQuery(chap.paragraphs[n][key]) THEN 1 ELSE 0
               /\ \A k \in ContentRecords(r) :
                      /\ r.matches[k].paragraph_id \in 1..Len(chap.paragraphs)
                      /\ r.matches[k].language \in {LangTag(key) : key \in LangKeys}
                      /\ r.matches[k].full_paragraph
                             = chap.paragraphs[r.matches[k].paragraph_id]

\* a search of scope 'all' gave a chapter a title record and a content record
\* of its second paragraph
C8_Witness ==
    /\ Searched
    /\ call.search_scope = "all"
    /\ \E i \in 1..Len(results) :
           /\ TitleRecords(results[i]) # {}
           /\ \E k \in ContentRecords(results[i]) :
                  /\ results[i].matches[k].paragraph_id = 2
                  /\ results[i].matches[k].language = "baihua"

\* C9: an empty or whitespace-only query gives the empty list, whatever the
\* scope, the filter and the corpus.
C9_EmptyQuery ==
    Searched /\ Trimmed(call.query) = <<>> => Len(results) = 0

\* a query of one space was searched in a corpus with a text that holds a space
C9_Witness ==
    /\ Searched
    /\ call.query = <<SP>>
    /\ call.search_scope = "all"
    /\ call.book_filter = PyNone
    /\ \E pos \in Positions : \E n \in 1..Len(ChapterAt(pos).paragraphs) :
           HasChar(ChapterAt(pos).paragraphs[n].en, SP)
    /\ Len(results) = 0

\* a filter value came with the call
FilterSupplied == call.book_filter # PyNone

\* C10 as claimed: with any supplied filter value every result is of the book
\* with that id, and the list is empty when no book has that id.
C10_AnyFilterValue ==
    Searched /\ FilterSupplied =>
        /\ \A i \in 1..Len(results) : results[i].book.id = call.book_filter
        /\ (\A b \in 1..Len(BOOKS) : BOOKS[b].id # call.book_filter) => Len(results) = 0

\* C10, amended: with a supplied filter value that is not the empty string
\* every result is of the book with that id, and the list is empty when no
\* book has that id; the empty string filters nothing.
C10_NonEmptyFilter ==
    /\ Searched /\ FilterSupplied /\ call.book_filter # <<>> =>
           /\ \A i \in 1..Len(results) : results[i].book.id = call.book_filter
           /\ (\A b \in 1..Len(BOOKS) : BOOKS[b].id # call.book_filter)
                  => Len(results) = 0
    /\ Searched /\ call.book_filter = <<>> =>
           results = search_in_books(BOOKS, call.query, call.search_scope, PyNone)

\* a search filtered to one book left out a chapter of another book that
\* holds the query
C10_Witness ==
    /\ Searched
    /\ call.book_filter = shiji
    /\ Len(results) > 0
    /\ \E pos \in Positions :
           /\ BookAt(pos).id # shiji
           /\ RecordsDue(ChapterAt(pos)) > 0

\* ------------------------------------------------------------------------
\* The corpus, stated on the file tree
\* ------------------------------------------------------------------------

Built == pc = "serving"

\* the directories right under RAW_DIR, and right under one of them
BookDirs == {p \in DOMAIN tree : Len(p) = 1 /\ tree[p].kind = "dir" /\ IsDir(tree, <<>>)}
CategoryDirs == {p \in DOMAIN tree : Len(p) = 2 /\ tree[p].kind = "dir"
                                     /\ SubSeq(p, 1, 1) \in BookDirs}

\* name ends in '.txt'
IsTxtName(name) ==
    /\ Len(name) >= 4
    /\ name[Len(name) - 3] = "." /\ name[Len(name) - 2] = "t"
    /\ name[Len(name) - 1] = "x" /\ name[Len(name)] = "t"

\* the names of the chapter files of a category directory
TxtNames(dir) == {p[3] : p \in {q \in DOMAIN tree : Len(q) = 3 /\ SubSeq(q, 1, 2) = dir
                                                    /\ IsTxtName(q[3])}}

\* the books and categories of the corpus, by id
CorpusBooks == {<<BOOKS[b].id>> : b \in 1..Len(BOOKS)}
CorpusCategories ==
    UNION {{<<BOOKS[b].id, BOOKS[b].categories[c].id>> :
               c \in 1..Len(BOOKS[b].categories)} : b \in 1..Len(BOOKS)}

\* C11: in a built corpus no category is without chapters and no book is
\* without categories; a category directory without '.txt' files is not in
\* its book, and a book directory whose categories are all such is not in the
\* corpus.
C11_NoEmptyNodes ==
    Built =>
        /\ \A b \in 1..Len(BOOKS) :
               /\ Len(BOOKS[b].categories) >= 1
               /\ \A c \in 1..Len(BOOKS[b].categories) :
                      Len(BOOKS[b].categories[c].chapters) >= 1
        /\ \A dir \in CategoryDirs : TxtNames(dir) = {} => dir \notin CorpusCategories
        /\ \A book \in BookDirs :
               (\A dir \in CategoryDirs : dir[1] = book[1] => TxtNames(dir) = {})
                   => book \notin CorpusBooks

\* a corpus was built from a tree where shiji has a category with chapters
\* and an empty one, and x has an empty category only
C11_Witness ==
    /\ Built
    /\ <<shiji, zz>> \in CategoryDirs /\ TxtNames(<<shiji, zz>>) = {}
    /\ <<shiji, benji>> \in CorpusCategories
    /\ <<xbook, benji>> \in CategoryDirs /\ TxtNames(<<xbook, benji>>) = {}
    /\ CorpusBooks = {<<shiji>>}

\* a stands before b in lexicographic order of code points: at the first
\* position where they differ a ends or has the lesser character
LexBefore(a, b) ==
    \E k \in 1..(Len(a) + 1) :
        /\ \A j \in 1..(k - 1) : j <= Len(b) /\ a[j] = b[j]
        /\ IF k > Len(a) THEN Len(b) >= k
           ELSE k <= Len(b) /\ Ord(a[k]) < Ord(b[k])

\* the place of a chapter filename among those of its category directory
RankOf(name, dir) == 1 + Cardinality({m \in TxtNames(dir) : LexBefore(m, name)})

\* what is read from a chapter file
ContentOf(dir, name) == parse_three_parallel_file(ReadFile(tree, Append(dir, name)))

\* chapter ch is the one made from the file name of dir
ComesFrom(ch, dir, name) ==
    /\ ch.title = ChapterTitle(name)
    /\ ch.wenyan = ContentOf(dir, name).wenyan
    /\ ch.zh = ContentOf(dir, name).zh
    /\ ch.en = ContentOf(dir, name).en
    /\ ch.paragraphs = ContentOf(dir, name).paragraphs

\* C12: in every category of a built corpus the chapter ids are exactly
\* 1..n, the chapter with id i comes from the i-th '.txt' filename of the
\* category directory in lexicographic order, and the chapters are stored in
\* that order.
C12_ChapterIds ==
    Built =>
        \A b \in 1..Len(BOOKS) : \A c \in 1..Len(BOOKS[b].categories) :
            LET dir == <<BOOKS[b].id, BOOKS[b].categories[c].id>>
                chs == BOOKS[b].categories[c].chapters
            IN /\ Len(chs) = Cardinality(TxtNames(dir))
               /\ \A i \in 1..Len(chs) :
                      /\ chs[i].id = i
                      /\ \E name \in TxtNames(dir) :
                             RankOf(name, dir) = i /\ ComesFrom(chs[i], dir, name)

\* three chapter files, '10_b.txt' standing before '2_a_b.txt' though 10 > 2
C12_Witness ==
    /\ Built
    /\ TxtNames(<<shiji, benji>>) = {ten_b_txt, a_b_txt, Ab_txt}
    /\ Len(BOOKS) >= 1
    /\ BOOKS[1].id = shiji /\ BOOKS[1].categories[1].id = benji
    /\ Len(BOOKS[1].categories[1].chapters) = 3
    /\ BOOKS[1].categories[1].chapters[1].title = <<"b">>
    /\ BOOKS[1].categories[1].chapters[2].title = <<"a", "_", "b">>
    /\ BOOKS[1].categories[1].chapters[2].wenyan # BOOKS[1].categories[1].chapters[1].wenyan

\* the filename without its extension '.txt'
Stem(name) == SubSeq(name, 1, Len(name) - 4)

\* title is the stem when the stem has no underscore, and otherwise what
\* stands behind the first underscore of the stem
TitleOfName(title, name) ==
    LET stem == Stem(name)
        underscores == {k \in 1..Len(stem) : stem[k] = "_"}
    IN IF underscores = {} THEN title = stem
       ELSE \E k \in underscores :
                /\ \A j \in underscores : k <= j
                /\ title = [x \in 1..(Len(stem) - k) |-> stem[k + x]]

KnownBook(id) == id \in DOMAIN book_configs
KnownCategory(id, cat) == KnownBook(id) /\ cat \in DOMAIN book_configs[id].categories

\* C17: a book's id is the name of its directory and its title the table
\* entry for that id, or the directory name when the table has none; a
\* category's title is the table label for that book and category, or the
\* category directory name when the book or the category is unknown; every
\* directory with chapter files is in the corpus under these names, and the
\* build fails for no unknown id.
C17_TitlesFromTable ==
    /\ Built =>
        /\ \A b \in 1..Len(BOOKS) :
            LET book == BOOKS[b] IN
            /\ <<book.id>> \in BookDirs
            /\ book.title = IF KnownBook(book.id) THEN book_configs[book.id].name
                            ELSE book.id
            /\ \A c \in 1..Len(book.categories) :
                LET cat == book.categories[c] IN
                /\ <<book.id, cat.id>> \in CategoryDirs
                /\ cat.title = IF KnownCategory(book.id, cat.id)
                               THEN book_configs[book.id].categories[cat.id]
                               ELSE cat.id
        /\ \A dir \in CategoryDirs : TxtNames(dir) # {} => dir \in CorpusCategories
    /\ pc = "crashed" =>
           \E p \in DOMAIN tree : Len(p) = 3 /\ IsTxtName(p[3]) /\ tree[p].kind = "dir"

\* a known book with a known and an unknown category, and an unknown book
\* whose category has a name the table knows for other books
C17_Witness ==
    /\ Built
    /\ Len(BOOKS) = 2
    /\ BOOKS[1].id = shiji /\ BOOKS[1].title = <<"U+53F2", "U+8BB0">>
    /\ Len(BOOKS[1].categories) = 2
    /\ BOOKS[1].categories[1].id = benji
    /\ BOOKS[1].categories[1].title = <<"U+672C", "U+7EAA">>
    /\ BOOKS[1].categories[2].id = zz /\ BOOKS[1].categories[2].title = zz
    /\ BOOKS[2].id = xbook /\ BOOKS[2].title = xbook
    /\ BOOKS[2].categories[1].id = benji /\ BOOKS[2].categories[1].title = benji

\* the file is missing, or holds nothing but whitespace
NothingToRead == IF file = FileNotFound THEN TRUE ELSE Trimmed(file) = <<>>

\* C13: parsing a file whose content is empty or whitespace-only after
\* trimming, or a file that is missing, gives the empty chapter: three empty
\* full texts and zero paragraphs, and no error.
C13_EmptyChapter ==
    (pc = "parsed" /\ NothingToRead) =>
        /\ DOMAIN chapter = {"wenyan", "zh", "en", "paragraphs"}
        /\ chapter.wenyan = <<>> /\ chapter.zh = <<>> /\ chapter.en = <<>>
        /\ Len(chapter.paragraphs) = 0

\* a file of spaces and blank lines has been parsed
C13_Witness ==
    /\ Parsed
    /\ file = <<SP, NL, NL, SP>>
    /\ chapter.paragraphs = <<>>

\* ------------------------------------------------------------------------
\* Statistics and pages
\* ------------------------------------------------------------------------

Counted == pc = "counted"

RECURSIVE SumOver(_, _)
\* the sum of value[i] over the indices of the set
SumOver(value, indices) ==
    IF indices = {} THEN 0
    ELSE LET i == CHOOSE x \in indices : TRUE IN value[i] + SumOver(value, indices \ {i})

\* the per-book values of one kind, summed
DetailSum(kind) ==
    SumOver([i \in 1..Len(stats.books_detail) |->
                IF kind = "categories" THEN stats.books_detail[i].categories
                ELSE IF kind = "chapters" THEN stats.books_detail[i].chapters
                ELSE stats.books_detail[i].paragraphs],
            1..Len(stats.books_detail))

\* C14: get_statistics returns total_books equal to the number of entries of
\* books_detail, and total_categories, total_chapters and total_paragraphs
\* equal to the sums of the per-book values of books_detail; on the empty
\* corpus all totals are zero.
C14_TotalsAreSums ==
    Counted =>
        /\ stats.total_books = Len(stats.books_detail)
        /\ stats.total_categories = DetailSum("categories")
        /\ stats.total_chapters = DetailSum("chapters")
        /\ stats.total_paragraphs = DetailSum("paragraphs")
        /\ BOOKS = <<>> =>
               /\ stats.total_books = 0 /\ stats.total_categories = 0
               /\ stats.total_chapters = 0 /\ stats.total_paragraphs = 0

\* the statistics of two books that differ in categories, chapters and
\* paragraphs
C14_Witness ==
    /\ Counted
    /\ Len(stats.books_detail) = 2
    /\ stats.books_detail[1].categories = 2 /\ stats.books_detail[2].categories = 1
    /\ stats.books_detail[1].chapters = 3 /\ stats.books_detail[2].chapters = 1
    /\ stats.books_detail[1].paragraphs > stats.books_detail[2].paragraphs
    /\ stats.books_detail[2].paragraphs > 0
    /\ stats.total_paragraphs > stats.total_chapters

\* the empty corpus has been counted
C14_WitnessEmpty == Counted /\ BOOKS = <<>> /\ stats.total_books = 0

Paged == pc = "paged"

\* the chapters of the corpus that have the three ids of the lookup, each
\* with its book and its category
Asked ==
    {x \in UNION {UNION {{[book |-> BookAt(<<b, c, k>>), category |-> CategoryAt(<<b, c, k>>),
                           chapter |-> ChapterAt(<<b, c, k>>)] :
                              k \in 1..Len(BOOKS[b].categories[c].chapters)} :
                            c \in 1..Len(BOOKS[b].categories)} : b \in 1..Len(BOOKS)} :
        /\ x.book.id = call.book_id
        /\ x.category.id = call.category_id
        /\ x.chapter.id = call.chapter_id}

\* the page shows chapter x
PageOf(x) ==
    /\ page.status = 200
    /\ page.book = x.book
    /\ page.category = x.category
    /\ page.chapter.id = x.chapter.id
    /\ page.chapter.title = x.chapter.title
    /\ page.chapter.wenyan = x.chapter.wenyan
    /\ page.chapter.z = x.chapter.zh
    /\ page.chapter.en = x.chapter.en
    /\ page.chapter.paragraphs = x.chapter.paragraphs

\* C18: a chapter page lookup by book id, category id and chapter id gives
\* the page of the chapter exactly when that book, that category in it and
\* that chapter id in the category exist in the corpus; in every other case
\* it gives not-found (404), and it ends in no other way.
C18_PageOrNotFound ==
    Paged =>
        /\ page.status \in {200, 404}
        /\ Asked # {} => \E x \in Asked : PageOf(x)
        /\ Asked = {} => page = [status |-> 404]

\* the page of the second chapter of shiji/benji, with a chapter before it
C18_Witness ==
    /\ Paged
    /\ call = [book_id |-> shiji, category_id |-> benji, chapter_id |-> 2]
    /\ page.status = 200
    /\ page.chapter.id = 2
    /\ page.prev_url = [book_id |-> shiji, category_id |-> benji, chapter_id |-> 1]
    /\ page.next_url = [none |-> TRUE]

\* a lookup of a chapter id the category does not have, in a corpus that has
\* the book and the category
C18_WitnessMiss ==
    /\ Paged
    /\ call = [book_id |-> shiji, category_id |-> zz, chapter_id |-> 2]
    /\ <<shiji, zz>> \in CorpusCategories
    /\ page = [status |-> 404]

\* ------------------------------------------------------------------------
\* Calls in any interleaving
\* ------------------------------------------------------------------------

\* what the call of thread w returns when it runs alone on the corpus
Alone(w) ==
    IF req.call[w].op = "search"
    THEN search_in_books(BOOKS, req.call[w].query, req.call[w].search_scope,
                         req.call[w].book_filter)
    ELSE get_statistics(BOOKS)

\* what thread w holds when its call has returned
Returned(w) == IF req.call[w].op = "search" THEN req.results[w] ELSE req.stats[w]

\* C15: once the corpus is built, search_in_books and get_statistics calls
\* in any interleaving leave the corpus as it was built, and each call
\* returns what it returns when it runs alone on that corpus.
C15_CallsIndependent ==
    pc = "serving" =>
        /\ BOOKS = load_books_from_raw(tree)
        /\ \A w \in Workers : req.phase[w] = "returned" => Returned(w) = Alone(w)

\* a search has returned its matches while the other thread is in the middle
\* of counting the books
C15_Witness ==
    /\ pc = "serving"
    /\ Len(BOOKS) = 2
    /\ req.phase[1] = "returned" /\ req.call[1].op = "search"
    /\ Len(req.results[1]) >= 2
    /\ req.phase[2] = "loop" /\ req.call[2].op = "stats" /\ req.i[2] = 2

\* ------------------------------------------------------------------------
\* The two builders
\* ------------------------------------------------------------------------

\* the tree is in the book/category/chapter-file layout: directories of
\* books, in each at least one directory of a category and nothing else, in
\* these nothing but '.txt' files
InLayout ==
    /\ <<>> \in DOMAIN tree
    /\ \A p \in DOMAIN tree :
           /\ Len(p) <= 3
           /\ Len(p) < 3 => tree[p].kind = "dir"
           /\ Len(p) = 3 => tree[p].kind = "file" /\ IsTxtName(p[3])
    /\ \A book \in BookDirs : \E dir \in CategoryDirs : dir[1] = book[1]

\* C19: for every tree in the book/category/chapter-file layout the static
\* export builder completes without error and produces the corpus the live
\* builder produces: the same books, categories, chapter ids and titles,
\* full texts and paragraph lists.
C19_SameCorpus ==
    (Built /\ static.run /\ InLayout) => static.raised = "" /\ static.books = BOOKS

\* outside the layout the builders differ too: a directory that holds
\* wenyan.txt and no directory is a book of the static export only
StaticOldFormatBook ==
    /\ Built /\ BOOKS = <<>>
    /\ static.run /\ static.raised = ""
    /\ static.books =
         <<[id |-> xbook, title |-> xbook,
            categories |->
              <<[id |-> <<"d", "e", "f", "a", "u", "l", "t">>,
                 title |-> <<"U+7AE0", "U+8282">>,
                 chapters |-> <<[id |-> 1, title |-> <<"T">>, wenyan |-> <<"a">>,
                                 zh |-> <<>>, en |-> <<>>]>>]>>]>>

\* ------------------------------------------------------------------------
\* Written by the importer, read by the parser
\* ------------------------------------------------------------------------

\* the paragraphs of a text: what blank lines separate, trimmed, those that
\* hold something
ParagraphsOfText(text) ==
    IF text = PyNone THEN <<>>
    ELSE SelectSeq(TrimEach(Pieces(text, InRun(text))), NonEmptySeq)

\* paragraph i of a text, '' when the text has fewer
ParagraphOrEmpty(text, i) ==
    IF i <= Len(ParagraphsOfText(text)) THEN ParagraphsOfText(text)[i] ELSE <<>>

\* C20: a chapter written with create_three_parallel_content(wenyan, zh, en)
\* and parsed with parse_three_parallel_file keeps the languages aligned:
\* the fields of the i-th parsed paragraph are the i-th paragraphs of wenyan,
\* zh and en, '' where a language has no i-th paragraph.
C20_RoundTripAligned ==
    pc = "imported" =>
        LET n == Max({Len(ParagraphsOfText(texts.wenyan)), Len(ParagraphsOfText(texts.zh)),
                      Len(ParagraphsOfText(texts.en))})
        IN \A i \in 1..n :
               /\ i <= Len(chapter.paragraphs)
               /\ chapter.paragraphs[i].wenyan = ParagraphOrEmpty(texts.wenyan, i)
               /\ chapter.paragraphs[i].zh = ParagraphOrEmpty(texts.zh, i)
               /\ chapter.paragraphs[i].en = ParagraphOrEmpty(texts.en, i)

\* with one line per paragraph and no language missing in any paragraph the
\* languages stay aligned
RoundTripOfFullGroups ==
    (/\ pc = "imported"
     /\ texts.wenyan # PyNone
     /\ \A text \in {texts.wenyan, texts.zh, texts.en} :
            /\ Len(ParagraphsOfText(text)) = Len(ParagraphsOfText(texts.zh))
            /\ \A k \in 1..Len(ParagraphsOfText(text)) :
                   \A j \in 1..Len(ParagraphsOfText(text)[k]) :
                       ParagraphsOfText(text)[k][j] # NL)
        => C20_RoundTripAligned

====
